---------------------------- MODULE Spec2Model ----------------------------
(* Model of tutorial1_DGP_and_bias.ipynb: a Jupyter kernel whose state is  *)
(* the set of global names, and one action per code cell.  Real numbers    *)
(* are kept in fixed point: utilities, shocks and parameters are integers  *)
(* counting tenths (beta_tc = -0.4 is -4, asc2 = 1 is 10).                 *)
(* Spec runs the data cells (4, 6, 8) in any order from a fresh kernel;    *)
(* SpecEst runs the estimation cells in any order after the data cells.    *)
EXTENDS Integers, Sequences, FiniteSets, TLC

(* ------------------------------ bounds --------------------------------- *)
\* Largest number of respondents N tried by the data cell.
MaxN == 2
\* Length of the cycle of the pseudo-random generator.
Period == 3

(* ------------------------- program constants --------------------------- *)
\* tasks = np.array([[4,35,8,25], ...]) of the data cell (TC1, TT1, TC2, TT2).
TASKS ==
    << <<4, 35, 8, 25>>, <<4, 35, 8, 30>>, <<6, 40, 7, 20>>,
       <<5, 30, 6, 25>>, <<5, 40, 7, 20>> >>
\* The task table of the tutorial's text (markdown cell 2).
TaskTable ==
    << <<4, 35, 8, 25>>, <<8, 30, 4, 35>>, <<7, 20, 6, 40>>,
       <<6, 25, 5, 30>>, <<5, 40, 7, 20>> >>
\* N = 200
NumRespondents == 200
\* The true parameters, in tenths.
beta_tt == -1
beta_tc == -4
asc1 == 0
asc2 == 10
\* np.random.seed(42)
SeedValue == 42
\* np.nan, the value of CHOICE before an alternative is assigned.
NaN == -1
\* Values a standard-Gumbel variate takes in the model, in tenths.
EpsVals == {-2, 2}

VARIABLES
    cfg,        \* the literals of cell 4: the respondent count and the task rows
    ns,         \* names defined in the kernel
    tasks,      \* the task array
    N,          \* the number of respondents
    df,         \* the dataframe: a sequence of rows (records)
    params,     \* beta_tt, beta_tc, asc1, asc2
    gumbel,     \* the generator's cycle of Gumbel variates
    rng,        \* global state of np.random: position in the cycle
    file,       \* lines of data/synthetic_VTTdata_tutorial1.dat
    last,       \* the cell executed last, and the exception it raised
    drawNo,     \* history: ordinal, since seeding, of the draw behind each shock
    lastRun,    \* history: input and output of the latest run of the generator
    refRun,     \* history: an earlier run of the generator, kept for comparison
    biodata,    \* the rows the Biogeme database was built from
    model,      \* model_name, the Beta objects and the utilities V1, V2
    results_MNL,\* the results object of the latest estimation that returned
    VTT,        \* the value of travel time, a fraction num/den
    calls,      \* history: library calls of the latest call of estimate_mnl
    specCell    \* history: the specification cell (15 or 23) executed last

dataVars == <<cfg, tasks, N, df, params, gumbel, rng, file, drawNo, lastRun, refRun>>
estVars == <<biodata, model, results_MNL, VTT, calls, specCell>>
vars == <<ns, last, dataVars, estVars>>

(* ----------------------------- numpy ----------------------------------- *)
RECURSIVE Repeat(_, _)
\* np.repeat(a, reps): every element of a, reps times in turn.
Repeat(a, reps) ==
    IF Len(a) = 0 THEN <<>>
    ELSE IF Len(a) = 1 THEN [i \in 1..reps |-> a[1]]
    ELSE LET h == Len(a) \div 2
         IN  Repeat(SubSeq(a, 1, h), reps) \o Repeat(SubSeq(a, h + 1, Len(a)), reps)

\* np.repeat(a, reps, axis=0) in place of np.tile: every row reps times in turn.
TileBug(a, reps) == Repeat(a, reps)

RECURSIVE Tile(_, _)
\* np.tile(a, (reps, 1)): reps copies of the whole array a, one after the other.
Tile(a, reps) ==
    IF reps = 0 THEN <<>>
    ELSE IF reps = 1 THEN a
    ELSE LET h == reps \div 2
         IN  Tile(a, h) \o Tile(a, reps - h)

\* np.arange(lo, hi): lo, lo+1, ..., hi-1.
Arange(lo, hi) == [i \in 1..(hi - lo) |-> lo + i - 1]

\* pd.DataFrame(np.concatenate((resp_id, data), axis=1), columns=[...]).
DataFrame(resp_id, data) ==
    [k \in 1..Len(data) |->
        [RESP |-> resp_id[k], TC1 |-> data[k][1], TT1 |-> data[k][2],
         TC2 |-> data[k][3], TT2 |-> data[k][4]]]

\* The dataframe the data cell builds from a task array and a respondent count.
BuildDf(ts, n) == DataFrame(Repeat(Arange(1, n + 1), Len(ts)), Tile(ts, n))

(* --------------------------- np.random --------------------------------- *)
\* np.random.seed(s) without effect: the stream goes on from where it is.
SeedBug(r, s) == r

\* np.random.seed(s): the generator restarts at the position the seed fixes.
Seed(r, s) == [pos |-> s % Period, count |-> 0]

\* np.random.gumbel(size=n): the next n variates of the stream.
Gumbel(r, n) == [k \in 1..n |-> gumbel[(r.pos + k - 1) % Period]]

\* The ordinals, counted from the last seeding, of the n draws Gumbel makes.
DrawOrdinals(r, n) == [k \in 1..n |-> r.count + k]

\* A generator that hands out the same variates again.
AdvanceBug(r, n) == r

\* The generator after n draws.
Advance(r, n) == [pos |-> (r.pos + n) % Period, count |-> r.count + n]

(* ------------------------- the generator ------------------------------- *)
\* The two coefficients exchanged.
UtilityBug(asc, p, tc, tt) == asc + p.beta_tt * tc + p.beta_tc * tt

\* asc + beta_tc * TC + beta_tt * TT of one alternative.
Utility(asc, p, tc, tt) == asc + p.beta_tc * tc + p.beta_tt * tt

\* The labels of the two alternatives exchanged.
ChooseSwapped(u1, u2) == IF u1 > u2 THEN 2 ELSE IF u2 > u1 THEN 1 ELSE NaN

\* A tie-break in favour of alternative 1.
ChooseBug(u1, u2) == IF u1 >= u2 THEN 1 ELSE 2

\* CHOICE = nan; loc[U1 > U2] = 1; loc[U2 > U1] = 2.
Choose(u1, u2) ==
    LET c0 == NaN
        c1 == IF u1 > u2 THEN 1 ELSE c0
        c2 == IF u2 > u1 THEN 2 ELSE c1
    IN  c2

\* The columns cell 8 adds to row k, given the two vectors of shocks.
WithChoice(row, p, e1, e2) ==
    LET v1 == Utility(p.asc1, p, row.TC1, row.TT1)
        v2 == Utility(p.asc2, p, row.TC2, row.TT2)
        u1 == v1 + e1
        u2 == v2 + e2
    IN  [RESP |-> row.RESP, TC1 |-> row.TC1, TT1 |-> row.TT1,
         TC2 |-> row.TC2, TT2 |-> row.TT2,
         V1 |-> v1, V2 |-> v2, epsilon1 |-> e1, epsilon2 |-> e2,
         U1 |-> u1, U2 |-> u2, CHOICE |-> Choose(u1, u2)]

\* The input columns of a row.
Attributes(row) ==
    [RESP |-> row.RESP, TC1 |-> row.TC1, TT1 |-> row.TT1,
     TC2 |-> row.TC2, TT2 |-> row.TT2]

\* A conversion that casts NaN to an integer without raising.
AstypeIntRaisesBug(rows) == FALSE

\* df['CHOICE'].astype(int) raises when a value of the column is NaN.
AstypeIntRaises(rows) == \E k \in 1..Len(rows) : rows[k].CHOICE = NaN

(* ------------------------------ to_csv --------------------------------- *)
Digits == <<"0", "1", "2", "3", "4", "5", "6", "7", "8", "9">>

RECURSIVE NatToStr(_)
\* The decimal digits of a natural number, most significant first.
NatToStr(n) ==
    IF n < 10 THEN <<Digits[n + 1]>>
    ELSE NatToStr(n \div 10) \o <<Digits[(n % 10) + 1]>>

\* str(n) of an integer.
IntToStr(n) == IF n < 0 THEN <<"-">> \o NatToStr(-n) ELSE NatToStr(n)

\* The names of the persisted columns, as text.
ColumnText ==
    [RESP |-> <<"R", "E", "S", "P">>, TC1 |-> <<"T", "C", "1">>,
     TT1 |-> <<"T", "T", "1">>, TC2 |-> <<"T", "C", "2">>,
     TT2 |-> <<"T", "T", "2">>,
     CHOICE |-> <<"C", "H", "O", "I", "C", "E">>]

\* A column list that leaves the respondent id out.
PersistedColumnsBug == <<"TC1", "TT1", "TC2", "TT2", "CHOICE">>

\* df[['RESP','TC1','TT1','TC2','TT2','CHOICE']]
PersistedColumns == <<"RESP", "TC1", "TT1", "TC2", "TT2", "CHOICE">>

RECURSIVE Join(_, _)
\* sep.join(fields)
Join(fields, sep) ==
    IF Len(fields) = 0 THEN <<>>
    ELSE IF Len(fields) = 1 THEN fields[1]
    ELSE fields[1] \o <<sep>> \o Join(Tail(fields), sep)

\* to_csv(path, sep=',', index=False): a header line, then one line per row.
ToCsv(rows, cols) ==
    <<Join([c \in 1..Len(cols) |-> ColumnText[cols[c]]], ",")>> \o
    [k \in 1..Len(rows) |->
        Join([c \in 1..Len(cols) |-> IntToStr(rows[k][cols[c]])], ",")]

(* ----------------------------- read_csv -------------------------------- *)
RECURSIVE Split(_, _)
\* line.split(sep)
Split(line, sep) ==
    IF \A i \in 1..Len(line) : line[i] # sep THEN <<line>>
    ELSE LET i == CHOOSE j \in 1..Len(line) :
                    line[j] = sep /\ \A h \in 1..(j - 1) : line[h] # sep
         IN  <<SubSeq(line, 1, i - 1)>> \o Split(SubSeq(line, i + 1, Len(line)), sep)

RECURSIVE StrToNat(_)
\* The natural number a non-empty string of decimal digits denotes.
StrToNat(text) ==
    LET d == CHOOSE v \in 0..9 : Digits[v + 1] = text[Len(text)]
    IN  IF Len(text) = 1 THEN d
        ELSE 10 * StrToNat(SubSeq(text, 1, Len(text) - 1)) + d

\* int(text)
StrToInt(text) == IF text[1] = "-" THEN 0 - StrToNat(Tail(text)) ELSE StrToNat(text)

\* pd.read_csv(path): the column names of the header line, and one record per
\* following line, every field parsed as an integer.
ReadCsv(lines) ==
    LET names == Split(lines[1], ",")
        cols  == [c \in 1..Len(names) |->
                     CHOOSE x \in DOMAIN ColumnText : ColumnText[x] = names[c]]
        Row(k) == LET fields == Split(lines[k + 1], ",")
                  IN  [x \in {cols[c] : c \in 1..Len(cols)} |->
                          StrToInt(fields[CHOOSE c \in 1..Len(cols) : cols[c] = x])]
    IN  [columns |-> cols, rows |-> [k \in 1..(Len(lines) - 1) |-> Row(k)]]

(* --------------------------- data cells -------------------------------- *)
Done(cell, err) == [cell |-> cell, error |-> err]

NoRun == [ran |-> FALSE, rngBefore |-> 0, inputs |-> <<>>, rows |-> <<>>,
          written |-> <<>>, error |-> "none"]

\* beta_tt, beta_tc, asc1, asc2 of cell 6.
TrueParams ==
    [beta_tt |-> beta_tt, beta_tc |-> beta_tc, asc1 |-> asc1, asc2 |-> asc2]

\* The body of cell 8 on dataframe d, parameters p and generator state r.
Generate(d, p, r) ==
    LET n    == Len(d)
        r0   == Seed(r, SeedValue)
        eps1 == Gumbel(r0, n)
        r1   == Advance(r0, n)
        eps2 == Gumbel(r1, n)
        r2   == Advance(r1, n)
        rows == [k \in 1..n |-> WithChoice(d[k], p, eps1[k], eps2[k])]
        bad  == AstypeIntRaises(rows)
    IN  [rows    |-> rows,
         error   |-> IF bad THEN "ValueError" ELSE "none",
         written |-> IF bad THEN <<>> ELSE ToCsv(rows, PersistedColumns),
         rng     |-> r2,
         drawNo  |-> [e1 |-> DrawOrdinals(r0, n), e2 |-> DrawOrdinals(r1, n)]]

\* What the history keeps of a run of cell 8.
RunRecord(d, p, r, g) ==
    [ran |-> TRUE, rngBefore |-> r.pos,
     inputs |-> <<[k \in 1..Len(d) |-> Attributes(d[k])], p>>,
     rows |-> g.rows, written |-> g.written, error |-> g.error]

\* Cell 4: the tasks, the number of respondents and the dataframe.
Cell4 ==
    /\ tasks' = SubSeq(TASKS, 1, cfg.T)
    /\ N' = cfg.N
    /\ df' = BuildDf(tasks', N')
    /\ ns' = ns \cup {"tasks", "N", "df"}
    /\ last' = Done("cell4", "none")
    /\ UNCHANGED <<cfg, params, gumbel, rng, file, drawNo, lastRun, refRun>>
    /\ UNCHANGED estVars

\* Cell 6: the true parameters.
Cell6 ==
    /\ params' = TrueParams
    /\ ns' = ns \cup {"params"}
    /\ last' = Done("cell6", "none")
    /\ UNCHANGED <<cfg, tasks, N, df, gumbel, rng, file, drawNo, lastRun, refRun>>
    /\ UNCHANGED estVars

\* Cell 8 run before the cells that define df and the parameters: NameError.
Cell8NameError ==
    /\ ~({"df", "params"} \subseteq ns)
    /\ last' = Done("cell8", "NameError")
    /\ UNCHANGED <<ns, dataVars, estVars>>

\* Cell 8: utilities, shocks, choices, and the data file.
Cell8 ==
    /\ {"df", "params"} \subseteq ns
    /\ LET g   == Generate(df, params, rng)
           run == RunRecord(df, params, rng, g)
       IN  /\ rng' = g.rng
           /\ drawNo' = g.drawNo
           /\ df' = g.rows
           /\ file' = IF g.error = "none" THEN g.written ELSE file
           /\ last' = Done("cell8", g.error)
           /\ lastRun' = run
           /\ \E keep \in BOOLEAN :
                 refRun' = IF keep /\ ~refRun.ran THEN run ELSE refRun
    /\ UNCHANGED <<cfg, ns, tasks, N, params, gumbel>>
    /\ UNCHANGED estVars

(* ------------------------ estimation cells ----------------------------- *)
NoModel == [model_name |-> "none", betas |-> {}, V1 |-> <<>>, V2 |-> <<>>]
NoResults == [model_name |-> "none", free |-> {}, B_TT |-> 0, B_TC |-> 0]
NoVTT == [num |-> 0, den |-> 1]

\* Beta(name, 0, None, None, status): status 1 fixes the parameter at 0.
Beta(name, status) == [name |-> name, status |-> status]

\* A term beta * x of a utility expression (x = "1" for a constant).
Term(beta, x) == [beta |-> beta, x |-> x]

\* model_name of cells 15 and 23.
NameWithASC == "Linear-additive RUM-MNL with ASC (true model)"
NameWithoutASC == "Lin-additive RUM-MNL without ASC"

\* The Beta objects cell 15 creates, and its utilities.
BetasWithASC ==
    {Beta("B_TT", 0), Beta("B_TC", 0), Beta("ASC1", 1), Beta("ASC2", 0)}
V1WithASC ==
    <<Term(Beta("ASC1", 1), "1"), Term(Beta("B_TT", 0), "TT1"),
      Term(Beta("B_TC", 0), "TC1")>>
V2WithASC ==
    <<Term(Beta("ASC2", 0), "1"), Term(Beta("B_TT", 0), "TT2"),
      Term(Beta("B_TC", 0), "TC2")>>

\* Cell 23 leaving the V1 of cell 15 in place.
V1StaleASC ==
    <<Term(Beta("ASC1", 1), "1"), Term(Beta("B_TT", 0), "TT1"),
      Term(Beta("B_TC", 0), "TC1")>>

\* The Beta objects cell 23 creates, and its utilities.
BetasWithoutASC == {Beta("B_TT", 0), Beta("B_TC", 0)}
V1WithoutASC == <<Term(Beta("B_TT", 0), "TT1"), Term(Beta("B_TC", 0), "TC1")>>
V2WithoutASC == <<Term(Beta("B_TT", 0), "TT2"), Term(Beta("B_TC", 0), "TC2")>>

\* The names of the parameters the optimizer estimates for utilities v1, v2.
FreeParams(v1, v2) ==
    {v1[i].beta.name : i \in {j \in 1..Len(v1) : v1[j].beta.status = 0}} \cup
    {v2[i].beta.name : i \in {j \in 1..Len(v2) : v2[j].beta.status = 0}}

\* Values of (B_TT, B_TC) the optimizer may return.
Estimates ==
    {[B_TT |-> -1, B_TC |-> -4], [B_TT |-> -3, B_TC |-> -2], [B_TT |-> 0, B_TC |-> 0]}

\* A likelihood exists only for rows whose CHOICE is alternative 1 or 2.
ValidChoices(rows) ==
    /\ Len(rows) > 0
    /\ \A k \in 1..Len(rows) :
          "CHOICE" \in DOMAIN rows[k] /\ rows[k].CHOICE \in {1, 2}

RECURSIVE GCD(_, _)
GCD(a, b) == IF b = 0 THEN a ELSE GCD(b, a % b)

Abs(x) == IF x < 0 THEN 0 - x ELSE x

\* The fraction a/b in lowest terms, b # 0.
Fraction(a, b) ==
    LET g == GCD(Abs(a), Abs(b))
        sgn == IF b < 0 THEN 0 - 1 ELSE 1
    IN  [num |-> sgn * (a \div g), den |-> sgn * (b \div g)]

\* The ratio taken the wrong way round: 60 * (b_tc / b_tt).
ValueOfTravelTimeBug(b_tt, b_tc) ==
    IF b_tt = 0 THEN [num |-> 0, den |-> 1]
    ELSE LET q == Fraction(b_tc, b_tt) IN Fraction(60 * q.num, q.den)

\* 60 * (b_tt / b_tc)
ValueOfTravelTime(b_tt, b_tc) ==
    LET q == Fraction(b_tt, b_tc) IN Fraction(60 * q.num, q.den)

\* estimate_mnl calling the optimizer once more after a failure.
EstimateMnlCallsRetry(ok) ==
    IF ok
    THEN <<"logit", "log", "BIOGEME", "calculate_null_loglikelihood", "estimate">>
    ELSE <<"logit", "log", "BIOGEME", "calculate_null_loglikelihood", "estimate",
           "estimate">>

\* The library calls of the body of estimate_mnl, in order; ok tells whether
\* biogeme.estimate() returns.
EstimateMnlCalls(ok) ==
    <<"logit", "log", "BIOGEME", "calculate_null_loglikelihood", "estimate">>

\* Cell 13: the Biogeme database and the Variable objects.
Cell13 ==
    /\ IF "df" \in ns
       THEN /\ biodata' = df
            /\ ns' = ns \cup {"biodata", "Variables"}
            /\ last' = Done("cell13", "none")
       ELSE /\ last' = Done("cell13", "NameError")
            /\ UNCHANGED <<ns, biodata>>
    /\ UNCHANGED <<dataVars, model, results_MNL, VTT, calls, specCell>>

\* Cell 15: the model with ASC.  The name and the Beta objects are assigned
\* before the utilities, which need the Variable objects of cell 13.
Cell15 ==
    /\ IF "Variables" \in ns
       THEN /\ model' = [model_name |-> NameWithASC, betas |-> BetasWithASC,
                         V1 |-> V1WithASC, V2 |-> V2WithASC]
            /\ ns' = ns \cup {"model_name", "V"}
            /\ last' = Done("cell15", "none")
       ELSE /\ model' = [model EXCEPT !.model_name = NameWithASC,
                                      !.betas = BetasWithASC]
            /\ ns' = ns \cup {"model_name"}
            /\ last' = Done("cell15", "NameError")
    /\ specCell' = "cell15"
    /\ UNCHANGED <<dataVars, biodata, results_MNL, VTT, calls>>

\* Cell 23: the model without ASC.
Cell23 ==
    /\ IF "Variables" \in ns
       THEN /\ model' = [model_name |-> NameWithoutASC,
                         betas |-> {b \in model.betas :
                                       b.name \notin {"B_TT", "B_TC"}}
                                   \cup BetasWithoutASC,
                         V1 |-> V1WithoutASC, V2 |-> V2WithoutASC]
            /\ ns' = ns \cup {"model_name", "V"}
            /\ last' = Done("cell23", "none")
       ELSE /\ model' = [model EXCEPT !.model_name = NameWithoutASC,
                                      !.betas = {b \in @ :
                                                    b.name \notin {"B_TT", "B_TC"}}
                                                \cup BetasWithoutASC]
            /\ ns' = ns \cup {"model_name"}
            /\ last' = Done("cell23", "NameError")
    /\ specCell' = "cell23"
    /\ UNCHANGED <<dataVars, biodata, results_MNL, VTT, calls>>

\* Cell 17: def estimate_mnl.
Cell17 ==
    /\ ns' = ns \cup {"estimate_mnl"}
    /\ last' = Done("cell17", "none")
    /\ UNCHANGED <<dataVars, estVars>>

\* The names cells 19 and 25 read.
EstimationNames == {"estimate_mnl", "V", "biodata", "Variables", "model_name"}

EstimationCells == {"cell19", "cell25"}

\* Cells 19 and 25 before a name they read is defined: NameError.
EstimationNameError(c) ==
    /\ ~(EstimationNames \subseteq ns)
    /\ last' = Done(c, "NameError")
    /\ UNCHANGED <<ns, dataVars, estVars>>

\* Cells 19 and 25 when biogeme.estimate() raises: the exception leaves
\* estimate_mnl and the cell; results_MNL and VTT are not assigned.
EstimationFails(c) ==
    /\ EstimationNames \subseteq ns
    /\ calls' = EstimateMnlCalls(FALSE)
    /\ last' = Done(c, "EstimationError")
    /\ UNCHANGED <<ns, dataVars, biodata, model, results_MNL, VTT, specCell>>

\* Cells 19 and 25 when biogeme.estimate() returns: the results object is
\* assigned, the summary printed, and the value of travel time computed.
EstimationReturns(c) ==
    /\ EstimationNames \subseteq ns
    /\ ValidChoices(biodata)
    /\ calls' = EstimateMnlCalls(TRUE)
    /\ \E e \in Estimates :
          /\ results_MNL' = [model_name |-> model.model_name,
                             free |-> FreeParams(model.V1, model.V2),
                             B_TT |-> e.B_TT, B_TC |-> e.B_TC]
          /\ IF e.B_TC = 0
             THEN /\ last' = Done(c, "ZeroDivisionError")
                  /\ UNCHANGED VTT
             ELSE /\ last' = Done(c, "none")
                  /\ VTT' = ValueOfTravelTime(e.B_TT, e.B_TC)
    /\ ns' = ns \cup {"results_MNL"}
    /\ UNCHANGED <<dataVars, biodata, model, specCell>>

EstInitVars ==
    /\ biodata = <<>>
    /\ model = NoModel
    /\ results_MNL = NoResults
    /\ VTT = NoVTT
    /\ calls = <<>>
    /\ specCell = "none"

Init ==
    /\ cfg \in [N : 1..MaxN, T : 1..Len(TASKS)]
    /\ ns = {}
    /\ tasks = <<>>
    /\ N = 0
    /\ df = <<>>
    /\ params = [beta_tt |-> 0, beta_tc |-> 0, asc1 |-> 0, asc2 |-> 0]
    /\ gumbel \in [0..(Period - 1) -> EpsVals]
    /\ rng \in [pos : 0..(Period - 1), count : {0}]
    /\ file = <<>>
    /\ last = Done("none", "none")
    /\ drawNo = [e1 |-> <<>>, e2 |-> <<>>]
    /\ lastRun = NoRun
    /\ refRun = NoRun
    /\ EstInitVars

Next ==
    \/ Cell4
    \/ Cell6
    \/ Cell8NameError
    \/ Cell8

\* The data cells (4, 6, 8), executed in any order, any number of times.
Spec == Init /\ [][Next]_vars

\* The kernel after the data cells 4, 6 and 8 ran once, top to bottom, on the
\* notebook's five tasks.
InitEst ==
    /\ cfg \in [N : 1..MaxN, T : {Len(TASKS)}]
    /\ gumbel \in [0..(Period - 1) -> EpsVals]
    /\ tasks = SubSeq(TASKS, 1, cfg.T)
    /\ N = cfg.N
    /\ params = TrueParams
    /\ ns = {"tasks", "N", "df", "params"}
    /\ \E r \in [pos : 0..(Period - 1), count : {0}] :
          LET d == BuildDf(tasks, N)
              g == Generate(d, params, r)
          IN  /\ df = g.rows
              /\ rng = g.rng
              /\ drawNo = g.drawNo
              /\ file = g.written
              /\ last = Done("cell8", g.error)
              /\ lastRun = RunRecord(d, params, r, g)
    /\ refRun = NoRun
    /\ EstInitVars

NextEst ==
    \/ Cell13
    \/ Cell15
    \/ Cell17
    \/ Cell23
    \/ \E c \in EstimationCells : EstimationNameError(c)
    \/ \E c \in EstimationCells : EstimationFails(c)
    \/ \E c \in EstimationCells : EstimationReturns(c)

\* The estimation cells (13, 15, 17, 19, 23, 25), executed in any order, any
\* number of times, after the data cells.
SpecEst == InitEst /\ [][NextEst]_vars

(* ------------------------------ claims --------------------------------- *)
\* Rows 0..n*T-1 are ordered by respondent, then by task in the order of ts.
RowOrder(rows, ts, n) ==
    LET T == Len(ts)
    IN  /\ Len(rows) = n * T
        /\ \A k \in 0..(Len(rows) - 1) :
              /\ rows[k + 1].RESP = (k \div T) + 1
              /\ <<rows[k + 1].TC1, rows[k + 1].TT1,
                   rows[k + 1].TC2, rows[k + 1].TT2>> = ts[(k % T) + 1]
        /\ \A r \in 1..n :
              {k \in 0..(Len(rows) - 1) : rows[k + 1].RESP = r}
                 = ((r - 1) * T)..(r * T - 1)

\* The table of the notebook as written: N = 200 respondents, all five tasks.
ScenarioA == BuildDf(TASKS, NumRespondents)
ScenarioAOrdered == Len(ScenarioA) = 1000 /\ RowOrder(ScenarioA, TASKS, NumRespondents)

\* C1: the table has N*T rows (1000 for N = 200, T = 5); the row at 0-based
\* position k has respondent id floor(k/T)+1 and the attributes of task k mod T,
\* so every respondent id 1..N labels exactly T consecutive rows.
C1_RowOrder ==
    /\ ScenarioAOrdered
    /\ "df" \in ns => RowOrder(df, tasks, N)

C1_Witness == "df" \in ns /\ N >= 2 /\ Len(tasks) = 5 /\ last.cell = "cell4"

\* The rows of df that carry the columns of cell 8.
Generated == {k \in 1..Len(df) : "CHOICE" \in DOMAIN df[k]}

\* C2: for every generated observation with U1 # U2, exactly one of CHOICE = 1
\* and CHOICE = 2 holds, and the chosen alternative is the one with the
\* strictly larger total utility U_i = V_i + epsilon_i.
C2_ArgMax ==
    \A k \in Generated :
        LET row == df[k]
        IN  /\ row.U1 = row.V1 + row.epsilon1
            /\ row.U2 = row.V2 + row.epsilon2
            /\ row.U1 # row.U2 =>
                  /\ (row.CHOICE = 1) # (row.CHOICE = 2)
                  /\ row.CHOICE = 1 <=> row.U1 > row.U2
                  /\ row.CHOICE = 2 <=> row.U2 > row.U1

C2_Witness ==
    /\ \E k \in Generated : df[k].CHOICE = 1 /\ df[k].U1 > df[k].U2
    /\ \E k \in Generated : df[k].CHOICE = 2 /\ df[k].U2 > df[k].U1

\* C3: an observation with tied total utilities (U1 = U2) is never assigned
\* alternative 1 or alternative 2: its choice stays unresolved.
C3_TieUnresolved ==
    \A k \in Generated :
        df[k].U1 = df[k].U2 => df[k].CHOICE \notin {1, 2} /\ df[k].CHOICE = NaN

C3_Witness ==
    /\ last = Done("cell8", "ValueError")
    /\ \E k \in Generated : df[k].U1 = df[k].U2

\* The i-th variate of the stream after np.random.seed(42).
Variate(i) == gumbel[((SeedValue % Period) + i - 1) % Period]

\* C4 as stated: the shocks are drawn interleaved, epsilon1 of observation k
\* being draw 2k+1 and epsilon2 draw 2k+2 of the seeded stream.
C4_Interleaved ==
    lastRun.ran =>
        \A k \in 0..(Len(lastRun.rows) - 1) :
            /\ drawNo.e1[k + 1] = 2 * k + 1
            /\ drawNo.e2[k + 1] = 2 * k + 2

\* C4, amended: the shocks are drawn in two blocks from the seeded stream, all
\* n epsilon1 first and then all n epsilon2, each in row order: epsilon1 of
\* observation k is draw k+1 and epsilon2 is draw n+k+1.
C4_Blocks ==
    lastRun.ran =>
        LET n == Len(lastRun.rows)
        IN  \A k \in 0..(n - 1) :
                /\ drawNo.e1[k + 1] = k + 1
                /\ drawNo.e2[k + 1] = n + k + 1
                /\ lastRun.rows[k + 1].epsilon1 = Variate(k + 1)
                /\ lastRun.rows[k + 1].epsilon2 = Variate(n + k + 1)
                /\ \A j \in 0..(n - 1) : drawNo.e1[k + 1] < drawNo.e2[j + 1]

C4_Witness ==
    /\ lastRun.ran
    /\ Len(lastRun.rows) >= 4
    /\ \E k \in 1..Len(lastRun.rows) :
          lastRun.rows[k].epsilon1 # lastRun.rows[k].epsilon2

\* C5: two runs of the generator on identical tasks, respondents and
\* parameters produce identical rows, choices and file, whatever the state of
\* the random stream before each run.
C5_Deterministic ==
    (lastRun.ran /\ refRun.ran /\ lastRun.inputs = refRun.inputs) =>
        /\ lastRun.rows = refRun.rows
        /\ lastRun.written = refRun.written
        /\ lastRun.error = refRun.error

C5_Witness ==
    /\ lastRun.ran /\ refRun.ran
    /\ lastRun.inputs = refRun.inputs
    /\ lastRun.rngBefore # refRun.rngBefore
    /\ lastRun.error = "none"
    /\ Len(lastRun.rows) >= 4

\* C6: V_i = asc_i + beta_cost * cost_i + beta_time * time_i from alternative
\* i's own attributes; with the true parameters the first observation
\* (4, 35, 8, 25) has V1 = -5.1 and V2 = -4.7 (-51 and -47 tenths).
C6_Utilities ==
    /\ \A k \in Generated :
          /\ df[k].V1 = asc1 + beta_tc * df[k].TC1 + beta_tt * df[k].TT1
          /\ df[k].V2 = asc2 + beta_tc * df[k].TC2 + beta_tt * df[k].TT2
    /\ 1 \in Generated =>
          /\ <<df[1].TC1, df[1].TT1, df[1].TC2, df[1].TT2>> = <<4, 35, 8, 25>>
          /\ df[1].V1 = -51
          /\ df[1].V2 = -47

C6_Witness == 1 \in Generated /\ Len(df) >= 4 /\ params = TrueParams

\* C7 as stated: the tasks given to every respondent are those of the
\* tutorial's task table, in its order.
C7_TasksAreTheTable ==
    ("df" \in ns /\ Len(tasks) = Len(TaskTable)) =>
        /\ tasks = TaskTable
        /\ RowOrder(df, TaskTable, N)

\* The observations of a dataframe: its persisted columns.
Observations(rows) ==
    [k \in 1..Len(rows) |->
        [RESP |-> rows[k].RESP, TC1 |-> rows[k].TC1, TT1 |-> rows[k].TT1,
         TC2 |-> rows[k].TC2, TT2 |-> rows[k].TT2, CHOICE |-> rows[k].CHOICE]]

\* C8: the file holds a header RESP,TC1,TT1,TC2,TT2,CHOICE and one line per
\* (respondent, task) pair in row order, and reading it back yields the
\* observations that were written: same columns, values and order.
C8_RoundTrip ==
    last = Done("cell8", "none") =>
        /\ file[1] = <<"R", "E", "S", "P", ",", "T", "C", "1", ",", "T", "T", "1", ",",
                       "T", "C", "2", ",", "T", "T", "2", ",",
                       "C", "H", "O", "I", "C", "E">>
        /\ Len(file) = 1 + N * Len(tasks)
        /\ ReadCsv(file).columns = <<"RESP", "TC1", "TT1", "TC2", "TT2", "CHOICE">>
        /\ ReadCsv(file).rows = Observations(df)

C8_Witness ==
    /\ last = Done("cell8", "none")
    /\ Len(file) >= 11
    /\ \E k \in 1..Len(df) : df[k].CHOICE = 1

\* C10: every call of estimate_mnl invokes the optimizer exactly once, after
\* the null log-likelihood; when the optimizer fails the exception reaches the
\* cell, and no result is returned: results_MNL and VTT keep their values.
C10_OneShot ==
    [][(last'.cell \in EstimationCells /\ last'.error # "NameError") =>
          /\ Cardinality({i \in 1..Len(calls') : calls'[i] = "estimate"}) = 1
          /\ \E i, j \in 1..Len(calls') :
                /\ i < j
                /\ calls'[i] = "calculate_null_loglikelihood"
                /\ calls'[j] = "estimate"
          /\ last'.error = "EstimationError" =>
                /\ results_MNL' = results_MNL
                /\ VTT' = VTT
                /\ ns' = ns]_vars

C10_Witness ==
    /\ last.cell \in EstimationCells
    /\ last.error = "EstimationError"
    /\ results_MNL # NoResults
    /\ VTT # NoVTT
    /\ ValidChoices(biodata)

\* The value of travel time of the true parameters of cell 6.
TrueVTT == ValueOfTravelTime(beta_tt, beta_tc)

\* C11: the value of travel time is 60 * (B_TT / B_TC) of the coefficients it
\* is computed from; it is assigned only by a cell whose estimation returned,
\* after the optimizer call, and leaves the returned estimates as they are;
\* for the true parameters (-0.1, -0.4) it is 15.
C11_VTT ==
    [][/\ TrueVTT = [num |-> 15, den |-> 1]
       /\ VTT' # VTT =>
             /\ last'.cell \in EstimationCells
             /\ last'.error = "none"
       /\ (last'.cell \in EstimationCells /\ last'.error = "none") =>
             /\ calls'[Len(calls')] = "estimate"
             /\ VTT'.den > 0
             /\ VTT'.num * results_MNL'.B_TC = 60 * results_MNL'.B_TT * VTT'.den
             /\ [B_TT |-> results_MNL'.B_TT, B_TC |-> results_MNL'.B_TC]
                   \in Estimates]_vars

C11_Witness ==
    /\ last.cell \in EstimationCells
    /\ last.error = "none"
    /\ results_MNL.B_TT = -3
    /\ results_MNL.B_TC = -2
    /\ VTT = [num |-> 90, den |-> 1]

\* C13: every data line of the persisted file ends in a CHOICE of 1 or 2; a
\* run of cell 8 with a tied observation raises at the integer conversion and
\* writes nothing, so the file never holds an unresolved choice.
C13_NoUnresolvedInFile ==
    [][/\ \A i \in 2..Len(file') :
             LET line == file'[i]
             IN  /\ Len(line) >= 2
                 /\ line[Len(line)] \in {"1", "2"}
                 /\ line[Len(line) - 1] = ","
       /\ (last'.cell = "cell8" /\ last'.error # "NameError"
             /\ \E k \in 1..Len(df') : df'[k].U1 = df'[k].U2) =>
             /\ last'.error = "ValueError"
             /\ lastRun'.written = <<>>
             /\ file' = file]_vars

C13_Witness ==
    /\ last = Done("cell8", "ValueError")
    /\ \E k \in Generated : df[k].U1 = df[k].U2 /\ df[k].CHOICE = NaN
    /\ \E k \in Generated : df[k].CHOICE \in {1, 2}
    /\ file = <<>>

\* C14: in any order of the specification cells (15, 23) and the estimation
\* cells (19, 25) after the data cells, the model name and the utilities V1, V2
\* handed to estimate_mnl come from the same, most recently executed
\* specification cell, and a result carries the name of the model whose
\* utilities it was estimated from.
C14_NameMatchesUtilities ==
    /\ "V" \in ns =>
          \/ /\ specCell = "cell15"
             /\ model.model_name = "Linear-additive RUM-MNL with ASC (true model)"
             /\ Len(model.V1) = 3 /\ model.V1[1].beta.name = "ASC1"
             /\ Len(model.V2) = 3 /\ model.V2[1].beta.name = "ASC2"
          \/ /\ specCell = "cell23"
             /\ model.model_name = "Lin-additive RUM-MNL without ASC"
             /\ Len(model.V1) = 2 /\ Len(model.V2) = 2
             /\ \A i \in 1..2 : /\ model.V1[i].beta.name \in {"B_TT", "B_TC"}
                                /\ model.V2[i].beta.name \in {"B_TT", "B_TC"}
    /\ "results_MNL" \in ns =>
          \/ /\ results_MNL.model_name = "Linear-additive RUM-MNL with ASC (true model)"
             /\ results_MNL.free = {"ASC2", "B_TC", "B_TT"}
          \/ /\ results_MNL.model_name = "Lin-additive RUM-MNL without ASC"
             /\ results_MNL.free = {"B_TC", "B_TT"}

C14_Witness ==
    /\ last = Done("cell19", "none")
    /\ specCell = "cell23"
    /\ results_MNL.model_name = "Lin-additive RUM-MNL without ASC"
    /\ results_MNL.free = {"B_TC", "B_TT"}
    /\ Beta("ASC2", 0) \in model.betas

=============================================================================
